---- MODULE Spec2Model ----
(***************************************************************************)
(* Websocket clients of two exchanges.                                     *)
(* ripio (src/python/ccxt/pro/ripio.py): watch_order_book, the delayed     *)
(* snapshot task fetch_order_book_snapshot, the inbound dispatch path      *)
(* handle_message -> handle_order_book -> handle_order_book_message, and   *)
(* watch_trades / handle_trade.                                            *)
(* bitmex (src/python/ccxtpro/bitmex.py): watch_order_book, handle_message,*)
(* handle_error_message and handle_order_book.                             *)
(***************************************************************************)
EXTENDS Integers, Sequences, FiniteSets, TLC

(***************************************************************************)
(* Optional values: Python's None is the empty sequence, a present value x *)
(* is the one-element sequence <<x>>.                                      *)
(***************************************************************************)
None == <<>>

Some(x) == <<x>>

Get(o) == o[1]

(***************************************************************************)
(* Bounds of the model.                                                    *)
(***************************************************************************)
\* updated_id values and snapshot nonces range over 1..MaxNonce
MaxNonce == 3

\* inbound frames handled per symbol in one behaviour
MaxFrames == 3

\* snapshot tasks that may be scheduled or in flight per symbol
MaxTasks == 2

\* frames the bitmex client dispatches in one behaviour
MaxBitmexFrames == 3

\* waiters pending at the same time on the bitmex client
MaxWatches == 2

\* options['tradesLimit'], the capacity of a trades cache
TradesLimit == 2

\* trades parsed per symbol in one behaviour
MaxTrades == 4

\* frames handled on the ripio clients in one run
MaxRouted == 2

(***************************************************************************)
(* Markets.  market['id'] of the unified symbol, and str.lower() on it.    *)
(***************************************************************************)
Symbols == {"BTC/USDC", "ETH/USDC"}

\* the symbols the caller watches in the single-symbol specifications
Watchlist == {"BTC/USDC"}

MarketId(symbol) ==
    IF symbol = "BTC/USDC" THEN "BTC_USDC" ELSE "ETH_USDC"

Lower(id) ==
    IF id = "BTC_USDC" THEN "btc_usdc" ELSE "eth_usdc"

\* a messageHash that leaves the market out
MessageHashOfName(name, symbol) == name \o "_"

\* messageHash = name + '_' + market['id'].lower()
MessageHash(name, symbol) == name \o "_" \o Lower(MarketId(symbol))

(***************************************************************************)
(* Price levels and book sides.  A side maps each listed price to its      *)
(* amount.                                                                 *)
(***************************************************************************)
Level(p, a) == [price |-> p, amount |-> a]

EmptySide == [p \in {} |-> 0]

\* bookside.store(price, amount): amount 0 deletes the level, any other
\* amount inserts or replaces it
Store(bookside, price, amount) ==
    IF amount = 0
    THEN [p \in (DOMAIN bookside) \ {price} |-> bookside[p]]
    ELSE [p \in (DOMAIN bookside) \cup {price} |->
             IF p = price THEN amount ELSE bookside[p]]

\* self.order_book({}): empty sides, no nonce, no timestamp, empty cache
OrderBook ==
    [bids |-> EmptySide, asks |-> EmptySide, nonce |-> None,
     timestamp |-> None, cache |-> <<>>]

\* orderbook.reset(snapshot): the sides, nonce and timestamp of the snapshot
\* replace the book's; the cache of buffered frames is not touched
Reset(orderbook, snapshot) ==
    [orderbook EXCEPT !.bids = snapshot.bids, !.asks = snapshot.asks,
                      !.nonce = snapshot.nonce,
                      !.timestamp = snapshot.timestamp]

(***************************************************************************)
(* Inbound frames: {messageId, payload, publishTime}; the decoded payload  *)
(* is {buy: [...], sell: [...], updated_id}.                               *)
(***************************************************************************)
DeltaBodies ==
    { [buy |-> <<Level(100, 0)>>, sell |-> <<>>],
      [buy |-> <<Level(99, 1)>>, sell |-> <<Level(101, 0), Level(102, 2)>>] }

UpdatedIds == {None} \cup {Some(n) : n \in 1..MaxNonce}

Payloads ==
    { [buy |-> b.buy, sell |-> b.sell, updated_id |-> u] :
        b \in DeltaBodies, u \in UpdatedIds }

\* publishTime of a frame, as the epoch value parse8601 gives
PublishTime(data) ==
    IF data.updated_id = None THEN 1000 ELSE 1000 + Get(data.updated_id)

Messages ==
    { [messageId |-> Some("CAAQAA=="), payload |-> Some(d),
       publishTime |-> Some(PublishTime(d))] : d \in Payloads }
    \cup { [messageId |-> None, payload |-> None, publishTime |-> None] }

\* what the REST collaborator fetch_order_book returns
Snapshots ==
    { [bids |-> (100 :> 1), asks |-> (101 :> 2), nonce |-> Some(n),
       timestamp |-> None] : n \in 1..MaxNonce }

\* the frames of the smaller runs: one without payload, a delta with the
\* lowest and one with the highest updated_id
PairMessages ==
    { m \in Messages :
        \/ m.payload = None
        \/ /\ Get(m.payload).sell = <<>>
           /\ Get(m.payload).updated_id \in {Some(1), Some(MaxNonce)} }

\* the snapshots of the smaller runs: one and two levels per side
PairSnapshots ==
    { s \in Snapshots : s.nonce = Some(2) }
    \cup { [bids |-> (100 :> 1) @@ (99 :> 2), asks |-> (101 :> 2) @@ (102 :> 1),
            nonce |-> Some(2), timestamp |-> None] }

VARIABLES
    orderbooks,     \* self.orderbooks: symbol -> None | Some(book)
    subscriptions,  \* client.subscriptions of the symbol's connection: its keys in insertion order
    futures,        \* symbol -> whether a waiter is pending under its messageHash
    delayed,        \* symbol -> snapshot tasks scheduled by self.delay, not yet started
    fetching,       \* symbol -> snapshot tasks awaiting fetch_order_book
    out,            \* what the last step did: calls to resolve / reject, escaped exception
    snap,           \* history: the snapshot installed for the symbol
    arrived,        \* history: every frame dispatched for the symbol, in arrival order
    fetchFailed,    \* history: a snapshot fetch of the symbol has failed
    venue,          \* which exchange class the instance is: "ripio" or "bitmex"
    trades,         \* ripio self.trades: symbol -> None | Some(cache)
    tradeClient,    \* the client of the symbol's trades connection: subscriptions, pending waiter
    tradeLog,       \* history: every trade parsed for the symbol, in arrival order
    bitmexBooks,    \* bitmex self.orderbooks: symbol -> None | Some(book)
    bitmexFutures,  \* bitmex client.futures: the routing keys with a pending waiter
    bitmexSeen,     \* number of frames the bitmex client has dispatched
    bout,           \* what the last bitmex step did
    registry,       \* history: the routing key each watch call derived
    clients,        \* ripio self.clients: url -> subscriptions in insertion order, pending waiters
    tickers,        \* ripio self.tickers: symbol -> None | Some(ticker)
    rout            \* what the last step on a ripio client did

\* the part of the state the ripio order-book path does not touch
others ==
    <<venue, trades, tradeClient, tradeLog, bitmexBooks, bitmexFutures,
      bitmexSeen, bout, registry, clients, tickers, rout>>

\* the state of the ripio order-book path
bookVars ==
    <<orderbooks, subscriptions, futures, delayed, fetching, snap, arrived,
      fetchFailed>>

vars ==
    <<orderbooks, subscriptions, futures, delayed, fetching, out, snap,
      arrived, fetchFailed, venue, trades, tradeClient, tradeLog,
      bitmexBooks, bitmexFutures, bitmexSeen, bout, registry, clients,
      tickers, rout>>

\* the ripio clients by url with the tickers
routing == <<clients, tickers, rout>>

(***************************************************************************)
(* Delta application.                                                      *)
(***************************************************************************)
\* def handle_deltas(self, bookside, deltas): the parameters it accepts
HandleDeltasParams == 2

\* self.handle_deltas(orderbook['asks'], asks, orderbook['nonce']): the
\* arguments handle_order_book_message passes
HandleDeltasArgs == 3

\* handle_delta: bookside.store(price, amount)
HandleDelta(bookside, delta) == Store(bookside, delta.price, delta.amount)

\* handle_deltas: handle_delta on each entry, in list order
RECURSIVE HandleDeltasFrom(_, _, _)
HandleDeltasFrom(bookside, deltas, i) ==
    IF i > Len(deltas) THEN bookside
    ELSE HandleDeltasFrom(HandleDelta(bookside, deltas[i]), deltas, i + 1)

HandleDeltas(bookside, deltas) == HandleDeltasFrom(bookside, deltas, 1)

\* a call of the bound method with nargs positional arguments: Python binds
\* the arguments before the body runs and raises TypeError when their
\* number differs from the parameters, leaving the side as it was
CallHandleDeltas(bookside, deltas, nargs) ==
    IF nargs = HandleDeltasParams
    THEN [raised |-> None, side |-> HandleDeltas(bookside, deltas)]
    ELSE [raised |-> Some("TypeError"), side |-> bookside]

Returned(orderbook) == [raised |-> None, book |-> orderbook]

Raised(e, orderbook) == [raised |-> Some(e), book |-> orderbook]

\* handle_order_book_message with orderbook['nonce'] = nonce moved above the
\* handle_deltas calls
HandleOrderBookMessageNonceFirst(message, orderbook) ==
    IF message.payload = None THEN Returned(orderbook)
    ELSE
      LET data == Get(message.payload)
          nonce == data.updated_id
      IN  IF nonce = None \/ orderbook.nonce = None
          THEN Raised("TypeError", orderbook)
          ELSE IF Get(nonce) > Get(orderbook.nonce)
          THEN
            LET stamped == [orderbook EXCEPT !.nonce = nonce]
                a == CallHandleDeltas(stamped.asks, data.sell, HandleDeltasArgs)
                afterAsks == [stamped EXCEPT !.asks = a.side]
                b == CallHandleDeltas(stamped.bids, data.buy, HandleDeltasArgs)
                afterBids == [afterAsks EXCEPT !.bids = b.side]
            IN  IF a.raised # None THEN Raised(Get(a.raised), afterAsks)
                ELSE IF b.raised # None THEN Raised(Get(b.raised), afterBids)
                ELSE Returned([afterBids EXCEPT
                                 !.timestamp = message.publishTime])
          ELSE Returned(orderbook)

\* handle_order_book_message with the nonce and timestamp assignments
\* dedented out of the if
HandleOrderBookMessageDedented(message, orderbook) ==
    IF message.payload = None THEN Returned(orderbook)
    ELSE
      LET data == Get(message.payload)
          nonce == data.updated_id
      IN  IF nonce = None \/ orderbook.nonce = None
          THEN Raised("TypeError", orderbook)
          ELSE
            LET taken == Get(nonce) > Get(orderbook.nonce)
                a == IF taken
                     THEN CallHandleDeltas(orderbook.asks, data.sell, HandleDeltasArgs)
                     ELSE [raised |-> None, side |-> orderbook.asks]
                afterAsks == [orderbook EXCEPT !.asks = a.side]
                b == IF taken
                     THEN CallHandleDeltas(orderbook.bids, data.buy, HandleDeltasArgs)
                     ELSE [raised |-> None, side |-> orderbook.bids]
                afterBids == [afterAsks EXCEPT !.bids = b.side]
            IN  IF a.raised # None THEN Raised(Get(a.raised), afterAsks)
                ELSE IF b.raised # None THEN Raised(Get(b.raised), afterBids)
                ELSE Returned([afterBids EXCEPT
                                 !.nonce = nonce,
                                 !.timestamp = message.publishTime])

\* handle_order_book_message whose call for the asks passes the two
\* arguments handle_deltas takes, the call for the bids still three
HandleOrderBookMessageAsksApplied(message, orderbook) ==
    IF message.payload = None THEN Returned(orderbook)
    ELSE
      LET data == Get(message.payload)
          nonce == data.updated_id
      IN  IF nonce = None \/ orderbook.nonce = None
          THEN Raised("TypeError", orderbook)
          ELSE IF Get(nonce) > Get(orderbook.nonce)
          THEN
            LET a == CallHandleDeltas(orderbook.asks, data.sell, HandleDeltasParams)
                afterAsks == [orderbook EXCEPT !.asks = a.side]
                b == CallHandleDeltas(orderbook.bids, data.buy, HandleDeltasArgs)
                afterBids == [afterAsks EXCEPT !.bids = b.side]
            IN  IF a.raised # None THEN Raised(Get(a.raised), afterAsks)
                ELSE IF b.raised # None THEN Raised(Get(b.raised), afterBids)
                ELSE Returned([afterBids EXCEPT
                                 !.nonce = nonce,
                                 !.timestamp = message.publishTime])
          ELSE Returned(orderbook)

\* handle_order_book_message(client, message, orderbook): the book after
\* the call and the exception that left it, if any
HandleOrderBookMessage(message, orderbook) ==
    IF message.payload = None THEN Returned(orderbook)
    ELSE
      LET data == Get(message.payload)
          nonce == data.updated_id
      IN  \* nonce > orderbook['nonce'] raises TypeError on a None operand
          IF nonce = None \/ orderbook.nonce = None
          THEN Raised("TypeError", orderbook)
          ELSE IF Get(nonce) > Get(orderbook.nonce)
          THEN
            LET a == CallHandleDeltas(orderbook.asks, data.sell, HandleDeltasArgs)
                afterAsks == [orderbook EXCEPT !.asks = a.side]
                b == CallHandleDeltas(orderbook.bids, data.buy, HandleDeltasArgs)
                afterBids == [afterAsks EXCEPT !.bids = b.side]
            IN  IF a.raised # None THEN Raised(Get(a.raised), afterAsks)
                ELSE IF b.raised # None THEN Raised(Get(b.raised), afterBids)
                ELSE Returned([afterBids EXCEPT
                                 !.nonce = nonce,
                                 !.timestamp = message.publishTime])
          ELSE Returned(orderbook)

\* the replay loop of fetch_order_book_snapshot: the buffered frames in
\* index order, stopping at the first one that raises
RECURSIVE ReplayFrom(_, _, _)
ReplayFrom(messages, i, orderbook) ==
    IF i > Len(messages) THEN Returned(orderbook)
    ELSE LET r == HandleOrderBookMessage(messages[i], orderbook)
         IN  IF r.raised # None THEN r
             ELSE ReplayFrom(messages, i + 1, r.book)

\* the try block of fetch_order_book_snapshot once fetch_order_book has
\* returned: messages = orderbook.cache, reset, replay
InstallSnapshot(orderbook, snapshot) ==
    ReplayFrom(orderbook.cache, 1, Reset(orderbook, snapshot))

(***************************************************************************)
(* bitmex (src/python/ccxtpro/bitmex.py): markets, tables and frames.      *)
(***************************************************************************)
\* the keys of self.markets_by_id
BitmexMarketIds == {"XBTUSD", "ETHUSD"}

\* self.markets_by_id[marketId]['symbol']
BitmexSymbol(marketId) ==
    IF marketId = "XBTUSD" THEN "BTC/USD" ELSE "ETH/USD"

BitmexSymbols == {BitmexSymbol(marketId) : marketId \in BitmexMarketIds}

\* self.market(symbol)['id']
BitmexMarketId(symbol) ==
    CHOOSE marketId \in BitmexMarketIds : BitmexSymbol(marketId) = symbol

\* the limit arguments a caller passes to watch_order_book
Limits == {None, Some(25), Some(10), Some(5)}

\* the name watch_order_book chooses for the limit, None where it raises
\* ExchangeError; options['watchOrderBookLevel'] is 'orderBookL2'
TableOfLimit(limit) ==
    IF limit = None THEN Some("orderBookL2")
    ELSE IF Get(limit) = 25 THEN Some("orderBookL2_25")
    ELSE IF Get(limit) = 10 THEN Some("orderBookL10")
    ELSE None

\* messageHash = name + ':' + market['id']
BitmexMessageHash(name, marketId) == name \o ":" \o marketId

\* the keys of the methods dict of handle_message
Methods == {"orderBookL2", "orderBookL2_25", "orderBook10"}

\* a row of the data list of an order-book frame; its id is a JSON number
Row(marketId, id, side, size, price) ==
    [symbol |-> marketId, id |-> id, side |-> side, size |-> size,
     price |-> price]

\* an inbound frame; a key the frame lacks is None
Frame(table, action, filter, data) ==
    [error |-> None, request |-> None, table |-> table, action |-> action,
     filter |-> filter, data |-> data]

\* the value under 'args' of an echoed request: a list of strings or a string
ArgsList(items) == [kind |-> "list", items |-> items]

\* a string is its first character and the rest
ArgsText(first, rest) == [kind |-> "str", first |-> first, rest |-> rest]

\* an error frame; request is None, or Some of the args of the echoed request
ErrorFrame(error, request) ==
    [error |-> Some(error), request |-> request, table |-> None,
     action |-> None, filter |-> None, data |-> <<>>]

RateLimitText == "Rate limit exceeded" \o ", retry in 1 seconds."

ErrorTexts == {RateLimitText, "Unknown table: orderBookL3"}

OrderBookFrames ==
    { Frame(Some("orderBookL2"), Some("partial"), Some("XBTUSD"),
            << Row("XBTUSD", 1, "Buy", Some(5), Some(100)),
               Row("XBTUSD", 2, "Sell", Some(3), Some(101)),
               Row("XBTUSD", 3, "Sell", Some(0), Some(102)) >>),
      Frame(Some("orderBookL2"), Some("partial"), Some("ETHUSD"),
            << Row("ETHUSD", 1, "Buy", Some(2), Some(50)) >>),
      Frame(Some("orderBook10"), Some("partial"), Some("XBTUSD"),
            << Row("XBTUSD", 1, "Sell", Some(1), Some(102)) >>),
      Frame(Some("orderBookL2"), Some("partial"), Some("LTCUSD"),
            << Row("LTCUSD", 1, "Buy", Some(4), Some(70)) >>),
      Frame(Some("orderBookL2"), Some("insert"), None,
            << Row("XBTUSD", 4, "Buy", Some(4), Some(99)) >>),
      Frame(Some("orderBookL2"), Some("insert"), None,
            << Row("XBTUSD", 5, "Sell", Some(0), Some(103)) >>),
      Frame(Some("orderBookL2"), Some("update"), None,
            << Row("XBTUSD", 1, "Buy", Some(7), None) >>),
      Frame(Some("orderBookL2"), Some("update"), None,
            << Row("ETHUSD", 1, "Buy", Some(9), None),
               Row("XBTUSD", 2, "Sell", Some(0), None) >>),
      Frame(Some("orderBookL2"), Some("update"), None,
            << Row("XBTUSD", 1, "Buy", Some(6), None),
               Row("LTCUSD", 1, "Buy", Some(1), None),
               Row("ETHUSD", 1, "Buy", Some(8), None),
               Row("XBTUSD", 2, "Sell", Some(4), None) >>),
      Frame(Some("orderBookL2"), Some("delete"), None,
            << Row("XBTUSD", 1, "Buy", None, None) >>) }

\* the welcome frame and the error frames
ControlFrames ==
    { Frame(None, None, None, <<>>) }
    \cup { ErrorFrame(error, Some(ArgsList(<<"orderBookL2" \o ":" \o "XBTUSD">>)))
             : error \in ErrorTexts }
    \cup { ErrorFrame(RateLimitText, Some(ArgsText("o", "rderBookL2" \o ":" \o "XBTUSD"))),
           ErrorFrame(RateLimitText, None),
           [Frame(None, None, None, <<>>) EXCEPT
              !.request = Some(ArgsList(<<"orderBookL2" \o ":" \o "XBTUSD">>))],
           Frame(Some("trade"), Some("insert"), None, <<>>) }

BitmexFrames == OrderBookFrames \cup ControlFrames

\* self.indexed_order_book(): each side maps the id of a level to its price
\* and size
IndexedOrderBook == [bids |-> <<>>, asks |-> <<>>]

\* the record of one bitmex step: the waiters resolved and rejected, in
\* order, the exception that escaped and the value returned
BitmexQuiet(op) ==
    [op |-> op, message |-> None, key |-> None, resolved |-> <<>>,
     rejected |-> <<>>, raised |-> None, dispatched |-> FALSE,
     returned |-> None]

(***************************************************************************)
(* The record of one step.                                                 *)
(***************************************************************************)
Quiet(op, symbol) ==
    [op |-> op, symbol |-> symbol, message |-> None, resolved |-> None,
     rejected |-> None, raised |-> None, ack |-> None, scheduled |-> FALSE]

\* the names of the ripio channels
RipioNames == {"trades", "rate", "orderbook"}

\* self.urls['api']['ws'] and self.options['uuid']
WsUrl == "wss://api.exchange.ripio.com/ws/v2/consumer/non-persistent/public/default/"

Uuid == "6f1b2a"

\* a url that leaves the market out
ConnectionUrlOfName(name, symbol) == WsUrl \o name \o "_" \o "/" \o Uuid

\* url = self.urls['api']['ws'] + messageHash + '/' + self.options['uuid']
ConnectionUrl(name, symbol) ==
    WsUrl \o MessageHash(name, symbol) \o "/" \o Uuid

\* the urls the watch functions can build
Urls == {ConnectionUrl(name, s) : name \in RipioNames, s \in Symbols}

\* the record of a step on a ripio client in which nothing was called
Unrouted(op) ==
    [op |-> op, name |-> None, market |-> None, message |-> None,
     ack |-> None, method |-> None, subscription |-> None,
     resolved |-> FALSE, returned |-> None, seen |-> 0]

\* the state of a freshly constructed exchange instance
Start ==
    /\ clients = [url \in Urls |-> [subscriptions |-> <<>>, futures |-> {}]]
    /\ tickers = [s \in Symbols |-> None]
    /\ rout = Unrouted("init")
    /\ trades = [s \in Symbols |-> None]
    /\ tradeClient = [s \in Symbols |-> [subscriptions |-> <<>>, future |-> FALSE]]
    /\ tradeLog = [s \in Symbols |-> <<>>]
    /\ bitmexBooks = [symbol \in BitmexSymbols |-> None]
    /\ bitmexFutures = {}
    /\ bitmexSeen = 0
    /\ bout = BitmexQuiet("init")
    /\ registry = {}
    /\ orderbooks = [s \in Symbols |-> None]
    /\ subscriptions = [s \in Symbols |-> <<>>]
    /\ futures = [s \in Symbols |-> FALSE]
    /\ delayed = [s \in Symbols |-> 0]
    /\ fetching = [s \in Symbols |-> 0]
    /\ out = Quiet("init", None)
    /\ snap = [s \in Symbols |-> None]
    /\ arrived = [s \in Symbols |-> <<>>]
    /\ fetchFailed = [s \in Symbols |-> FALSE]

Init == venue = "ripio" /\ Start

\* whether key is among the keys of client.subscriptions
Subscribed(keys, key) == \E i \in 1..Len(keys) : keys[i] = key

\* watch_order_book without the test of client.subscriptions
WatchOrderBookUnguarded(s) ==
    LET messageHash == MessageHash("orderbook", s)
        known == Subscribed(subscriptions[s], messageHash)
    IN  /\ delayed[s] + fetching[s] < MaxTasks
        /\ orderbooks' = [orderbooks EXCEPT ![s] = Some(OrderBook)]
        /\ subscriptions' =
             IF known THEN subscriptions
             ELSE [subscriptions EXCEPT ![s] = Append(@, messageHash)]
        /\ delayed' = [delayed EXCEPT ![s] = @ + 1]
        /\ futures' = [futures EXCEPT ![s] = TRUE]
        /\ out' = [Quiet("watch_order_book", Some(s)) EXCEPT !.scheduled = TRUE]
        /\ UNCHANGED others
        /\ UNCHANGED <<fetching, snap, arrived, fetchFailed>>

\* watch_order_book that never stores the subscription in client.subscriptions
WatchOrderBookUnregistered(s) ==
    LET messageHash == MessageHash("orderbook", s)
        first == ~Subscribed(subscriptions[s], messageHash)
    IN  /\ first => delayed[s] + fetching[s] < MaxTasks
        /\ orderbooks' = IF first
                         THEN [orderbooks EXCEPT ![s] = Some(OrderBook)]
                         ELSE orderbooks
        /\ delayed' = IF first THEN [delayed EXCEPT ![s] = @ + 1] ELSE delayed
        /\ futures' = [futures EXCEPT ![s] = TRUE]
        /\ out' = [Quiet("watch_order_book", Some(s)) EXCEPT !.scheduled = first]
        /\ UNCHANGED others
        /\ UNCHANGED <<subscriptions, fetching, snap, arrived, fetchFailed>>

\* watch_order_book(symbol) up to its await of the waiter
WatchOrderBook(s) ==
    LET messageHash == MessageHash("orderbook", s)
        first == ~Subscribed(subscriptions[s], messageHash)
    IN  /\ first => delayed[s] + fetching[s] < MaxTasks
        /\ orderbooks' = IF first
                         THEN [orderbooks EXCEPT ![s] = Some(OrderBook)]
                         ELSE orderbooks
        /\ subscriptions' =
             IF first
             THEN [subscriptions EXCEPT ![s] = Append(@, messageHash)]
             ELSE subscriptions
        /\ delayed' = IF first THEN [delayed EXCEPT ![s] = @ + 1] ELSE delayed
        /\ futures' = [futures EXCEPT ![s] = TRUE]
        /\ out' = [Quiet("watch_order_book", Some(s)) EXCEPT !.scheduled = first]
        /\ UNCHANGED others
        /\ UNCHANGED <<fetching, snap, arrived, fetchFailed>>

\* the warm-up delay elapses: the task starts and awaits fetch_order_book
StartSnapshotTask(s) ==
    /\ delayed[s] > 0
    /\ delayed' = [delayed EXCEPT ![s] = @ - 1]
    /\ fetching' = [fetching EXCEPT ![s] = @ + 1]
    /\ out' = Quiet("delay", Some(s))
    /\ UNCHANGED others
    /\ UNCHANGED <<orderbooks, subscriptions, futures, snap, arrived, fetchFailed>>

\* fetch_order_book_snapshot without the client.resolve call after the replay
FetchOrderBookSnapshotUnresolved(s, snapshot) ==
    /\ fetching[s] > 0
    /\ orderbooks[s] # None
    /\ LET r == InstallSnapshot(Get(orderbooks[s]), snapshot)
       IN  /\ orderbooks' = [orderbooks EXCEPT ![s] = Some(r.book)]
           /\ out' = [Quiet("fetch_order_book_snapshot", Some(s)) EXCEPT
                        !.rejected = r.raised]
    /\ fetching' = [fetching EXCEPT ![s] = @ - 1]
    /\ futures' = IF InstallSnapshot(Get(orderbooks[s]), snapshot).raised = None
                  THEN futures
                  ELSE [futures EXCEPT ![s] = FALSE]
    /\ snap' = [snap EXCEPT ![s] = Some(snapshot)]
    /\ UNCHANGED others
    /\ UNCHANGED <<subscriptions, delayed, arrived, fetchFailed>>

\* fetch_order_book returns snapshot: the rest of fetch_order_book_snapshot
FetchOrderBookSnapshot(s, snapshot) ==
    /\ fetching[s] > 0
    /\ orderbooks[s] # None
    /\ LET r == InstallSnapshot(Get(orderbooks[s]), snapshot)
       IN  /\ orderbooks' = [orderbooks EXCEPT ![s] = Some(r.book)]
           /\ out' = [Quiet("fetch_order_book_snapshot", Some(s)) EXCEPT
                        !.resolved = IF r.raised = None THEN Some(r.book) ELSE None,
                        !.rejected = r.raised]
    /\ fetching' = [fetching EXCEPT ![s] = @ - 1]
    /\ futures' = [futures EXCEPT ![s] = FALSE]
    /\ snap' = [snap EXCEPT ![s] = Some(snapshot)]
    /\ UNCHANGED others
    /\ UNCHANGED <<subscriptions, delayed, arrived, fetchFailed>>

\* fetch_order_book_snapshot without the try / except around the fetch
FetchOrderBookSnapshotFailsUncaught(s) ==
    /\ fetching[s] > 0
    /\ fetching' = [fetching EXCEPT ![s] = @ - 1]
    /\ out' = [Quiet("fetch_order_book_snapshot", Some(s)) EXCEPT
                 !.raised = Some("NetworkError")]
    /\ fetchFailed' = [fetchFailed EXCEPT ![s] = TRUE]
    /\ UNCHANGED others
    /\ UNCHANGED <<orderbooks, subscriptions, futures, delayed, snap, arrived>>

\* fetch_order_book raises: the except clause of fetch_order_book_snapshot
FetchOrderBookSnapshotFails(s) ==
    /\ fetching[s] > 0
    /\ fetching' = [fetching EXCEPT ![s] = @ - 1]
    /\ futures' = [futures EXCEPT ![s] = FALSE]
    /\ out' = [Quiet("fetch_order_book_snapshot", Some(s)) EXCEPT
                 !.rejected = Some("NetworkError")]
    /\ fetchFailed' = [fetchFailed EXCEPT ![s] = TRUE]
    /\ UNCHANGED others
    /\ UNCHANGED <<orderbooks, subscriptions, delayed, snap, arrived>>

\* handle_order_book buffering only the frames that carry a payload
HandleOrderBookPayloadOnly(message, book) ==
    IF book = None
    THEN [book |-> book, resolved |-> None, raised |-> None]
    ELSE IF Get(book).nonce = None
    THEN [book |-> IF message.payload = None THEN book
                   ELSE Some([Get(book) EXCEPT !.cache = Append(@, message)]),
          resolved |-> None, raised |-> None]
    ELSE LET r == HandleOrderBookMessage(message, Get(book))
         IN  [book |-> Some(r.book),
              resolved |-> IF r.raised = None THEN Some(r.book) ELSE None,
              raised |-> r.raised]

\* handle_order_book(client, message, subscription): the book, the value
\* handed to client.resolve and the exception that escapes
HandleOrderBook(message, book) ==
    IF book = None
    THEN [book |-> book, resolved |-> None, raised |-> None]
    ELSE IF Get(book).nonce = None
    THEN [book |-> Some([Get(book) EXCEPT !.cache = Append(@, message)]),
          resolved |-> None, raised |-> None]
    ELSE LET r == HandleOrderBookMessage(message, Get(book))
         IN  [book |-> Some(r.book),
              resolved |-> IF r.raised = None THEN Some(r.book) ELSE None,
              raised |-> r.raised]

\* handle_message spawning the ack only once the method has returned
HandleMessageAckLast(s, message) ==
    /\ subscriptions[s] # <<>>
    /\ Len(arrived[s]) < MaxFrames
    /\ LET r == HandleOrderBook(message, orderbooks[s])
       IN  /\ orderbooks' = [orderbooks EXCEPT ![s] = r.book]
           /\ futures' = IF r.resolved # None
                         THEN [futures EXCEPT ![s] = FALSE]
                         ELSE futures
           /\ out' = [Quiet("handle_message", Some(s)) EXCEPT
                        !.message = Some(message),
                        !.resolved = r.resolved,
                        !.raised = r.raised,
                        !.ack = IF r.raised = None THEN message.messageId
                                ELSE None]
    /\ arrived' = [arrived EXCEPT ![s] = Append(@, message)]
    /\ UNCHANGED others
    /\ UNCHANGED <<subscriptions, delayed, fetching, snap, fetchFailed>>

\* handle_message(client, message) on the connection of the symbol's order
\* book: spawn the ack, then the method of the first registered subscription
HandleMessage(s, message) ==
    /\ subscriptions[s] # <<>>
    /\ Len(arrived[s]) < MaxFrames
    /\ LET r == HandleOrderBook(message, orderbooks[s])
       IN  /\ orderbooks' = [orderbooks EXCEPT ![s] = r.book]
           /\ futures' = IF r.resolved # None
                         THEN [futures EXCEPT ![s] = FALSE]
                         ELSE futures
           /\ out' = [Quiet("handle_message", Some(s)) EXCEPT
                        !.message = Some(message),
                        !.resolved = r.resolved,
                        !.raised = r.raised,
                        !.ack = message.messageId]
    /\ arrived' = [arrived EXCEPT ![s] = Append(@, message)]
    /\ UNCHANGED others
    /\ UNCHANGED <<subscriptions, delayed, fetching, snap, fetchFailed>>

Next ==
    \E s \in Watchlist :
        \/ WatchOrderBook(s)
        \/ StartSnapshotTask(s)
        \/ \E snapshot \in Snapshots : FetchOrderBookSnapshot(s, snapshot)
        \/ FetchOrderBookSnapshotFails(s)
        \/ \E message \in Messages : HandleMessage(s, message)

Spec == Init /\ [][Next]_vars

\* the snapshot task of s leaves its await: fetch_order_book returned or raised
FetchCompletes(s) ==
    \/ \E snapshot \in PairSnapshots : FetchOrderBookSnapshot(s, snapshot)
    \/ FetchOrderBookSnapshotFails(s)

\* the steps of Spec over the smaller sets of frames and snapshots
FairNext ==
    \E s \in Watchlist :
        \/ WatchOrderBook(s)
        \/ StartSnapshotTask(s)
        \/ \E snapshot \in PairSnapshots : FetchOrderBookSnapshot(s, snapshot)
        \/ FetchOrderBookSnapshotFails(s)
        \/ \E message \in PairMessages : HandleMessage(s, message)

\* the event loop runs every timer that is due and resumes every task whose
\* awaited call has finished
FairSpec ==
    /\ Init /\ [][FairNext]_vars
    /\ \A s \in Symbols : WF_vars(StartSnapshotTask(s))
    /\ \A s \in Symbols : WF_vars(FetchCompletes(s))

(***************************************************************************)
(* Definitions used by the properties.                                     *)
(***************************************************************************)
\* the consumer-visible part of a book
View(book) == <<book.bids, book.asks, book.nonce, book.timestamp>>

HasNonce(s) == orderbooks[s] # None /\ Get(orderbooks[s]).nonce # None

Buffering(s) == orderbooks[s] # None /\ Get(orderbooks[s]).nonce = None

\* the step just taken dispatched a frame for s
Dispatched(s) == out.op = "handle_message" /\ out.symbol = Some(s)

IsDelta(message) ==
    message.payload # None /\ Get(message.payload).updated_id # None

UpdatedId(message) == Get(Get(message.payload).updated_id)

\* the frames are deltas whose updated_id rise strictly from above n0
RECURSIVE Rising(_, _)
Rising(frames, n0) ==
    \/ frames = <<>>
    \/ /\ IsDelta(Head(frames))
       /\ UpdatedId(Head(frames)) > n0
       /\ Rising(Tail(frames), UpdatedId(Head(frames)))

\* every frame handled by handle_order_book on the installed book
RECURSIVE DirectFrom(_, _, _)
DirectFrom(frames, i, book) ==
    IF i > Len(frames) THEN book
    ELSE DirectFrom(frames, i + 1,
                    Get(HandleOrderBook(frames[i], Some(book)).book))

AllDirect(snapshot, frames) ==
    DirectFrom(frames, 1, Reset(OrderBook, snapshot))

\* every frame buffered before the snapshot task installs the snapshot
AllBuffered(snapshot, frames) ==
    InstallSnapshot([OrderBook EXCEPT !.cache = frames], snapshot).book

(***************************************************************************)
(* C1: for a snapshot with nonce n0 and deltas with nonces n0 < n1 < ...   *)
(* < nk, the book (bids, asks, nonce, timestamp) reached by the split of   *)
(* the deltas between buffering and direct handling that the run took is   *)
(* the book of handling all of them directly and the book of buffering     *)
(* all of them.                                                            *)
(***************************************************************************)
C1_SplitEquivalence ==
    \A s \in Symbols :
        (snap[s] # None /\ Rising(arrived[s], Get(Get(snap[s]).nonce)))
        => /\ View(Get(orderbooks[s])) =
                View(AllDirect(Get(snap[s]), arrived[s]))
           /\ View(Get(orderbooks[s])) =
                View(AllBuffered(Get(snap[s]), arrived[s]))

\* a rising stream of which one delta was buffered and the rest handled directly
C1_Witness ==
    \E s \in Symbols :
        /\ snap[s] # None
        /\ Rising(arrived[s], Get(Get(snap[s]).nonce))
        /\ Len(Get(orderbooks[s]).cache) = 1
        /\ Len(arrived[s]) >= 2

(***************************************************************************)
(* C2: dispatching a delta whose updated_id is at most the nonce of the    *)
(* book leaves bids, asks, nonce and timestamp as they were.               *)
(***************************************************************************)
C2_StaleDeltaIsNoOp ==
    [][\A s \in Symbols :
         (/\ HasNonce(s)
          /\ Dispatched(s)'
          /\ IsDelta(Get(out'.message))
          /\ UpdatedId(Get(out'.message)) <= Get(Get(orderbooks[s]).nonce))
         => View(Get(orderbooks'[s])) = View(Get(orderbooks[s]))]_vars

\* a delta at or below the nonce has just been dispatched to a synced book
C2_Witness ==
    \E s \in Symbols :
        /\ HasNonce(s)
        /\ Dispatched(s)
        /\ IsDelta(Get(out.message))
        /\ UpdatedId(Get(out.message)) < Get(Get(orderbooks[s]).nonce)
        /\ Len(arrived[s]) > Len(Get(orderbooks[s]).cache)

\* each entry of deltas holds its amount on the side, or is absent at amount 0
Listed(side, deltas) ==
    \A i \in 1..Len(deltas) :
        IF deltas[i].amount = 0
        THEN deltas[i].price \notin DOMAIN side
        ELSE /\ deltas[i].price \in DOMAIN side
             /\ side[deltas[i].price] = deltas[i].amount

\* the prices that deltas does not list are on after as they were on before
Unlisted(before, after, deltas) ==
    \A p \in (DOMAIN before \cup DOMAIN after) \
               {deltas[i].price : i \in 1..Len(deltas)} :
        /\ p \in DOMAIN before
        /\ p \in DOMAIN after
        /\ after[p] = before[p]

(***************************************************************************)
(* C3: dispatching a delta whose updated_id n is above the nonce of a      *)
(* synced book completes without an exception; afterwards every listed     *)
(* price holds the listed amount on its side (absent at amount 0), every   *)
(* other price is unchanged and the nonce is n.                            *)
(***************************************************************************)
C3_FreshDeltaApplied ==
    [][\A s \in Symbols :
         (/\ HasNonce(s)
          /\ Dispatched(s)'
          /\ IsDelta(Get(out'.message))
          /\ UpdatedId(Get(out'.message)) > Get(Get(orderbooks[s]).nonce))
         => LET data == Get(Get(out'.message).payload)
                before == Get(orderbooks[s])
                after == Get(orderbooks'[s])
            IN  /\ out'.raised = None
                /\ Listed(after.bids, data.buy)
                /\ Listed(after.asks, data.sell)
                /\ Unlisted(before.bids, after.bids, data.buy)
                /\ Unlisted(before.asks, after.asks, data.sell)
                /\ after.nonce = data.updated_id]_vars

(***************************************************************************)
(* C4: once the nonce of a symbol's book is set it stays set and never     *)
(* decreases, and the nonce left by installing a snapshot and replaying    *)
(* the buffer is at least the snapshot's.                                  *)
(***************************************************************************)
C4_NonceMonotone ==
    [][\A s \in Symbols :
         /\ HasNonce(s) =>
              /\ HasNonce(s)'
              /\ Get(Get(orderbooks'[s]).nonce) >= Get(Get(orderbooks[s]).nonce)
         /\ (snap[s] = None /\ snap'[s] # None) =>
              /\ HasNonce(s)'
              /\ Get(Get(orderbooks'[s]).nonce) >= Get(Get(snap'[s]).nonce)]_vars

\* deltas below, at and above the nonce have been dispatched to a synced book
C4_Witness ==
    \E s \in Symbols :
        /\ HasNonce(s)
        /\ Get(orderbooks[s]).cache # <<>>
        /\ Len(arrived[s]) >= Len(Get(orderbooks[s]).cache) + 2
        /\ \E i, j \in 1..Len(arrived[s]) :
              /\ i > Len(Get(orderbooks[s]).cache)
              /\ j > i
              /\ IsDelta(arrived[s][i]) /\ IsDelta(arrived[s][j])
              /\ UpdatedId(arrived[s][i]) > Get(Get(snap[s]).nonce)
              /\ UpdatedId(arrived[s][j]) < UpdatedId(arrived[s][i])

(***************************************************************************)
(* C5: a frame dispatched while the book has no nonce is appended to the   *)
(* end of the pending buffer; bids, asks, nonce and timestamp do not       *)
(* change and the waiter is neither resolved nor rejected.                 *)
(***************************************************************************)
C5_BufferedWhileNoNonce ==
    [][\A s \in Symbols :
         (Buffering(s) /\ Dispatched(s)')
         => /\ orderbooks'[s] # None
            /\ Get(orderbooks'[s]).cache =
                 Append(Get(orderbooks[s]).cache, Get(out'.message))
            /\ View(Get(orderbooks'[s])) = View(Get(orderbooks[s]))
            /\ out'.resolved = None
            /\ out'.rejected = None
            /\ futures'[s] = futures[s]]_vars

\* a second frame, one without a payload, has just been buffered while the fetch is in flight
C5_Witness ==
    \E s \in Symbols :
        /\ Buffering(s)
        /\ Dispatched(s)
        /\ fetching[s] = 1
        /\ futures[s]
        /\ Len(Get(orderbooks[s]).cache) = 2
        /\ Get(out.message).payload = None
        /\ Get(orderbooks[s]).cache[2] = Get(out.message)

\* the step just taken was a watch_order_book call for s
Watched(s) == out.op = "watch_order_book" /\ out.symbol = Some(s)

(***************************************************************************)
(* C6: at most one snapshot task of a symbol is scheduled or in flight at  *)
(* any time, and a watch_order_book call for a symbol that already has a   *)
(* book schedules no task and leaves the book and its buffered frames as   *)
(* they are.                                                               *)
(***************************************************************************)
C6_SingleSnapshotFetch ==
    /\ [](\A s \in Symbols : delayed[s] + fetching[s] <= 1)
    /\ [][\A s \in Symbols :
            (orderbooks[s] # None /\ Watched(s)')
            => /\ ~out'.scheduled
               /\ delayed'[s] = delayed[s]
               /\ fetching'[s] = fetching[s]
               /\ orderbooks'[s] = orderbooks[s]]_vars

\* a repeated call while the fetch is in flight and frames are buffered
C6_Witness ==
    \E s \in Symbols :
        /\ Watched(s)
        /\ ~out.scheduled
        /\ fetching[s] = 1
        /\ Buffering(s)
        /\ Len(Get(orderbooks[s]).cache) = 2

(***************************************************************************)
(* C7: the pending buffer of a symbol is non-empty only while the nonce    *)
(* of its book is unset: once a snapshot is installed the buffer is empty. *)
(***************************************************************************)
C7_BufferEmptyOnceSynced ==
    \A s \in Symbols : HasNonce(s) => Get(orderbooks[s]).cache = <<>>

\* a delta that passes the nonce test, applied whole: sell levels on asks,
\* buy levels on bids, then the nonce and timestamp
ApplyAccepted(book, message) ==
    IF IsDelta(message) /\ UpdatedId(message) > Get(book.nonce)
    THEN [book EXCEPT
            !.asks = HandleDeltas(@, Get(message.payload).sell),
            !.bids = HandleDeltas(@, Get(message.payload).buy),
            !.nonce = Get(message.payload).updated_id,
            !.timestamp = message.publishTime]
    ELSE book

\* the snapshot with the accepted deltas among frames applied in arrival order
RECURSIVE AcceptedFrom(_, _, _)
AcceptedFrom(frames, i, book) ==
    IF i > Len(frames) THEN book
    ELSE AcceptedFrom(frames, i + 1, ApplyAccepted(book, frames[i]))

(***************************************************************************)
(* C8: every book handed to client.resolve has its nonce set, and its      *)
(* bids, asks, nonce and timestamp are those of the installed snapshot     *)
(* with exactly the accepted deltas that have arrived applied whole and in *)
(* arrival order.                                                          *)
(***************************************************************************)
C8_ResolvedBookIsConsistent ==
    out.resolved # None =>
        LET s == Get(out.symbol)
            book == Get(out.resolved)
        IN  /\ book.nonce # None
            /\ snap[s] # None
            /\ View(book) =
                 View(AcceptedFrom(arrived[s], 1,
                                   Reset(OrderBook, Get(snap[s]))))

(***************************************************************************)
(* C9: when fetch_order_book fails, the waiter of the symbol is rejected   *)
(* with that failure, no exception leaves the snapshot task, and the book  *)
(* keeps its nonce unset with bids, asks and pending buffer unchanged.     *)
(***************************************************************************)
C9_FetchFailureRejects ==
    [][\A s \in Symbols :
         (~fetchFailed[s] /\ fetchFailed'[s])
         => /\ out'.rejected = Some("NetworkError")
            /\ out'.resolved = None
            /\ out'.raised = None
            /\ ~futures'[s]
            /\ Buffering(s)'
            /\ orderbooks'[s] = orderbooks[s]]_vars

\* the fetch has just failed with a caller waiting and a frame buffered
C9_Witness ==
    \E s \in Symbols :
        /\ fetchFailed[s]
        /\ out.op = "fetch_order_book_snapshot"
        /\ out.rejected = Some("NetworkError")
        /\ Buffering(s)
        /\ Get(orderbooks[s]).cache # <<>>

(***************************************************************************)
(* C10: after a snapshot fetch of a symbol has failed, a later             *)
(* watch_order_book call for it schedules a new snapshot fetch.            *)
(***************************************************************************)
C10_RetryAfterFailure ==
    [][\A s \in Symbols :
         (/\ fetchFailed[s]
          /\ Buffering(s)
          /\ delayed[s] + fetching[s] = 0
          /\ Watched(s)')
         => /\ out'.scheduled
            /\ delayed'[s] + fetching'[s] = 1]_vars

\* the step just taken was the snapshot task of s settling the waiter
TaskSettled(s) ==
    out.op = "fetch_order_book_snapshot" /\ out.symbol = Some(s)

(***************************************************************************)
(* C11: once watch_order_book has scheduled the snapshot task of a symbol, *)
(* the task eventually settles the symbol's waiter, and it does so once:   *)
(* it resolves with the book, which then has its nonce, when the fetch and *)
(* the replay succeed, and rejects otherwise.                              *)
(***************************************************************************)
C11_SnapshotTaskSettlesOnce ==
    /\ \A s \in Symbols :
         (delayed[s] + fetching[s] > 0) ~> (snap[s] # None \/ fetchFailed[s])
    /\ [][\A s \in Symbols :
            TaskSettled(s)'
            => /\ snap[s] = None /\ ~fetchFailed[s]
               /\ ~futures'[s]
               /\ (out'.resolved # None) # (out'.rejected # None)
               /\ out'.resolved # None
                    => /\ HasNonce(s)'
                       /\ snap'[s] # None
                       /\ out'.resolved = orderbooks'[s]
               /\ (snap'[s] = None) => out'.rejected = Some("NetworkError")]_vars

\* the task has resolved a waiting caller with a book that replayed a buffered frame
C11_Witness ==
    \E s \in Symbols :
        /\ TaskSettled(s)
        /\ out.resolved # None
        /\ HasNonce(s)
        /\ Get(orderbooks[s]).cache # <<>>

(***************************************************************************)
(* bitmex: indexed book sides.                                             *)
(***************************************************************************)
\* the decimal numerals of the ids the frames carry
Numerals == <<"1", "2", "3", "4", "5">>

\* self.safe_string(data[i], 'id'): the id of the row as a string
SafeStringId(row) == Numerals[row.id]

\* the side without the level of the id
Drop(side, id) == [k \in (DOMAIN side) \ {id} |-> side[k]]

\* the side with the level of the id set to the price and size
Put(side, price, size, id) ==
    [k \in (DOMAIN side) \cup {id} |->
        IF k = id THEN [price |-> price, size |-> Get(size)] ELSE side[k]]

\* bookside.store(price, size, id): a size that is 0 or None deletes the
\* level of the id, any other size inserts or replaces it
IndexedStore(side, price, size, id) ==
    IF size = None \/ Get(size) = 0
    THEN Drop(side, id)
    ELSE Put(side, price, size, id)

\* bookside.restore(price, size, id): as store, but a row that carries no
\* price keeps the price of the level already stored under the id
IndexedRestore(side, price, size, id) ==
    IF size = None \/ Get(size) = 0
    THEN Drop(side, id)
    ELSE IF id \in DOMAIN side /\ price = None
    THEN Put(side, side[id].price, size, id)
    ELSE Put(side, price, size, id)

\* side = 'bids' if (side == 'Buy') else 'asks', then the call on that side
OnSide(book, row, bookside) ==
    IF row.side = "Buy"
    THEN [book EXCEPT !.bids = bookside]
    ELSE [book EXCEPT !.asks = bookside]

SideOf(book, row) == IF row.side = "Buy" THEN book.bids ELSE book.asks

\* the loop over the rows of a 'partial' frame storing every row among the
\* bids
RECURSIVE StorePartialOnBids(_, _, _)
StorePartialOnBids(orderbook, data, i) ==
    IF i > Len(data) THEN orderbook
    ELSE StorePartialOnBids(
             [orderbook EXCEPT
                !.bids = IndexedStore(orderbook.bids, data[i].price,
                                      data[i].size, SafeStringId(data[i]))],
             data, i + 1)

\* the loop over the rows of a 'partial' frame from row i on: every row is
\* stored in the book of the filter's market; a missing size is None
RECURSIVE StorePartialFrom(_, _, _)
StorePartialFrom(orderbook, data, i) ==
    IF i > Len(data) THEN orderbook
    ELSE StorePartialFrom(
             OnSide(orderbook, data[i],
                    IndexedStore(SideOf(orderbook, data[i]), data[i].price,
                                 data[i].size, SafeStringId(data[i]))),
             data, i + 1)

\* safe_float(data[i], 'size', 0): the size of the row, 0 where it has none
SizeOrZero(row) == IF row.size = None THEN Some(0) ELSE row.size

\* the row written to its side whatever its size
ApplyRowAnySize(orderbook, row, action) ==
    OnSide(orderbook, row,
           Put(SideOf(orderbook, row), row.price, SizeOrZero(row),
               SafeStringId(row)))

\* the row stored on its side whatever the action of the frame
ApplyRowStored(orderbook, row, action) ==
    OnSide(orderbook, row,
           IndexedStore(SideOf(orderbook, row), row.price, SizeOrZero(row),
                        SafeStringId(row)))

\* the row applied to the book: store for an 'insert' frame, restore for
\* every other action
ApplyRow(orderbook, row, action) ==
    OnSide(orderbook, row,
           IF action = Some("insert")
           THEN IndexedStore(SideOf(orderbook, row), row.price,
                             SizeOrZero(row), SafeStringId(row))
           ELSE IndexedRestore(SideOf(orderbook, row), row.price,
                               SizeOrZero(row), SafeStringId(row)))

\* whether the market id is among the ids in the sequence
Counted(marketIds, marketId) ==
    \E k \in 1..Len(marketIds) : marketIds[k] = marketId

\* the loop over the rows of an incremental frame from row i on: books is
\* self.orderbooks, marketIds the keys of numUpdatesByMarketId in insertion
\* order; self.orderbooks[symbol] raises KeyError for a market without a book
RECURSIVE ApplyRowsFrom(_, _, _, _, _)
ApplyRowsFrom(books, data, i, action, marketIds) ==
    IF i > Len(data)
    THEN [books |-> books, marketIds |-> marketIds, raised |-> None]
    ELSE IF data[i].symbol \notin BitmexMarketIds
    THEN ApplyRowsFrom(books, data, i + 1, action, marketIds)
    ELSE LET marketId == data[i].symbol
             symbol == BitmexSymbol(marketId)
             counted == IF Counted(marketIds, marketId) THEN marketIds
                        ELSE Append(marketIds, marketId)
         IN  IF books[symbol] = None
             THEN [books |-> books, marketIds |-> counted,
                   raised |-> Some("KeyError")]
             ELSE ApplyRowsFrom(
                      [books EXCEPT ![symbol] =
                          Some(ApplyRow(Get(books[symbol]), data[i], action))],
                      data, i + 1, action, counted)

\* the waiter resolved for each market id, in order: key and value
ResolvedFor(table, marketIds, books) ==
    [k \in 1..Len(marketIds) |->
        [key |-> BitmexMessageHash(table, marketIds[k]),
         value |-> books[BitmexSymbol(marketIds[k])]]]

\* handle_order_book(client, message): self.orderbooks afterwards, the calls
\* to client.resolve in order, and the exception that escapes
BitmexHandleOrderBook(message, books) ==
    LET table == Get(message.table)
    IN  IF message.action = Some("partial")
        THEN IF message.filter # None /\ Get(message.filter) \in BitmexMarketIds
             THEN LET marketId == Get(message.filter)
                      symbol == BitmexSymbol(marketId)
                      orderbook == StorePartialFrom(IndexedOrderBook,
                                                    message.data, 1)
                      after == [books EXCEPT ![symbol] = Some(orderbook)]
                  IN  [books |-> after,
                       resolved |-> ResolvedFor(table, <<marketId>>, after),
                       raised |-> None]
             ELSE [books |-> books, resolved |-> <<>>, raised |-> None]
        ELSE LET r == ApplyRowsFrom(books, message.data, 1, message.action,
                                    <<>>)
             IN  [books |-> r.books,
                  resolved |-> IF r.raised = None
                               THEN ResolvedFor(table, r.marketIds, r.books)
                               ELSE <<>>,
                  raised |-> r.raised]

(***************************************************************************)
(* bitmex: error frames and dispatch.                                      *)
(***************************************************************************)
\* str() of a list of strings, as Python prints it
RECURSIVE Joined(_, _)
Joined(items, i) ==
    IF i > Len(items) THEN ""
    ELSE IF i = Len(items) THEN "'" \o items[i] \o "'"
    ELSE "'" \o items[i] \o "', " \o Joined(items, i + 1)

\* self.safe_string(request, 'args', []): the str() of the value under
\* 'args'; the default, the empty list, when the key is missing
SafeStringArgs(request) ==
    IF request = None THEN ArgsList(<<>>)
    ELSE IF Get(request).kind = "str" THEN Get(request)
    ELSE ArgsText("[", Joined(Get(request).items, 1) \o "]")

\* len(args)
NumArgs(args) ==
    IF args.kind = "list" THEN Len(args.items)
    ELSE Len(args.first \o args.rest)

\* args[0]: the first item of a list, the first character of a string
FirstArg(args) == IF args.kind = "list" THEN args.items[1] ELSE args.first

\* the tails the error texts continue with after a broad key
Tails == {"", ", retry in 1 seconds."}

\* self.exceptions['ws']['broad']: key and exception class
Broad == << [key |-> "Rate limit exceeded", exception |-> "RateLimitExceeded"] >>

\* self.find_broadly_matched_key(broad, error): the first key the text
\* contains, None if there is none
FindBroadlyMatchedKey(broad, error) ==
    IF \E k \in 1..Len(broad) : \E tail \in Tails : error = broad[k].key \o tail
    THEN Some(CHOOSE k \in 1..Len(broad) :
                  /\ \E tail \in Tails : error = broad[k].key \o tail
                  /\ \A j \in 1..(k - 1) :
                        \A tail \in Tails : error # broad[j].key \o tail)
    ELSE None

\* handle_error_message returning False for every frame with an error
HandleErrorMessageStops(message) ==
    [continue |-> message.error = None, rejected |-> <<>>]

\* handle_error_message(client, message): what it returns and its call to
\* client.reject
HandleErrorMessage(message) ==
    IF message.error = None
    THEN [continue |-> TRUE, rejected |-> <<>>]
    ELSE LET args == SafeStringArgs(message.request)
         IN  IF NumArgs(args) > 0
             THEN LET broadKey == FindBroadlyMatchedKey(Broad, Get(message.error))
                      exception == IF broadKey = None THEN "ExchangeError"
                                   ELSE Broad[Get(broadKey)].exception
                  IN  [continue |-> FALSE,
                       rejected |-> << [key |-> FirstArg(args),
                                        exception |-> exception] >>]
             ELSE [continue |-> TRUE, rejected |-> <<>>]

\* the keys named by the calls, in a sequence of calls to resolve or reject
Keys(calls) == {calls[k].key : k \in 1..Len(calls)}

\* watch_order_book(symbol, limit) up to its await: the name for the limit,
\* the routing key, the subscribe request and the waiter under the key
BitmexWatchOrderBook(symbol, limit) ==
    /\ venue = "bitmex"
    /\ LET name == TableOfLimit(limit)
       IN  IF name = None
           THEN /\ bout' = [BitmexQuiet("watch_order_book") EXCEPT
                              !.raised = Some("ExchangeError")]
                /\ UNCHANGED bitmexFutures
           ELSE LET messageHash ==
                        BitmexMessageHash(Get(name), BitmexMarketId(symbol))
                IN  /\ Cardinality(bitmexFutures \cup {messageHash}) <= MaxWatches
                    /\ bitmexFutures' = bitmexFutures \cup {messageHash}
                    /\ bout' = [BitmexQuiet("watch_order_book") EXCEPT
                                  !.key = Some(messageHash)]
    /\ UNCHANGED <<bitmexBooks, bitmexSeen>>
    /\ UNCHANGED <<bookVars, out, venue, routing, trades, tradeClient, tradeLog, registry>>

\* handle_message(client, message): the error check, then the method of the
\* frame's table
BitmexHandleMessage(message) ==
    /\ venue = "bitmex"
    /\ bitmexSeen < MaxBitmexFrames
    /\ bitmexSeen' = bitmexSeen + 1
    /\ LET e == HandleErrorMessage(message)
       IN  IF ~e.continue
           THEN /\ bitmexFutures' = bitmexFutures \ Keys(e.rejected)
                /\ bout' = [BitmexQuiet("handle_message") EXCEPT
                              !.message = Some(message),
                              !.rejected = e.rejected]
                /\ UNCHANGED bitmexBooks
           ELSE IF message.table = None \/ Get(message.table) \notin Methods
           THEN /\ bout' = [BitmexQuiet("handle_message") EXCEPT
                              !.message = Some(message),
                              !.returned = Some(message)]
                /\ UNCHANGED <<bitmexBooks, bitmexFutures>>
           ELSE LET r == BitmexHandleOrderBook(message, bitmexBooks)
                IN  /\ bitmexBooks' = r.books
                    /\ bitmexFutures' = bitmexFutures \ Keys(r.resolved)
                    /\ bout' = [BitmexQuiet("handle_message") EXCEPT
                                  !.message = Some(message),
                                  !.resolved = r.resolved,
                                  !.raised = r.raised,
                                  !.dispatched = TRUE]
    /\ UNCHANGED <<bookVars, out, venue, routing, trades, tradeClient, tradeLog, registry>>

(***************************************************************************)
(* The bitmex client alone.                                                *)
(***************************************************************************)
BitmexNext ==
    \/ \E symbol \in BitmexSymbols : \E limit \in Limits :
          BitmexWatchOrderBook(symbol, limit)
    \/ \E message \in BitmexFrames : BitmexHandleMessage(message)

(***************************************************************************)
(* Both exchange classes, the instance being one of them; ripio watches    *)
(* two symbols, each on its own connection.                                *)
(***************************************************************************)
\* the steps of a ripio instance
RipioWatchOrderBook(s) == venue = "ripio" /\ WatchOrderBook(s)

RipioStartSnapshotTask(s) == venue = "ripio" /\ StartSnapshotTask(s)

RipioFetchOrderBookSnapshot(s, snapshot) ==
    venue = "ripio" /\ FetchOrderBookSnapshot(s, snapshot)

RipioFetchOrderBookSnapshotFails(s) ==
    venue = "ripio" /\ FetchOrderBookSnapshotFails(s)

\* the number of frames dispatched so far on the connections of the symbols
RECURSIVE ArrivedOn(_)
ArrivedOn(symbols) ==
    IF symbols = {} THEN 0
    ELSE LET s == CHOOSE x \in symbols : TRUE
         IN  Len(arrived[s]) + ArrivedOn(symbols \ {s})

\* a frame on the symbol's connection; all connections together carry one
\* frame fewer than one connection in Spec
RipioHandleMessage(s, message) ==
    /\ venue = "ripio"
    /\ ArrivedOn(Symbols) + 1 < MaxFrames
    /\ HandleMessage(s, message)

VenuesInit == venue \in {"ripio", "bitmex"} /\ Start

VenuesNext ==
    \/ \E s \in Symbols :
          \/ RipioWatchOrderBook(s)
          \/ RipioStartSnapshotTask(s)
          \/ \E snapshot \in PairSnapshots :
                RipioFetchOrderBookSnapshot(s, snapshot)
          \/ RipioFetchOrderBookSnapshotFails(s)
          \/ \E message \in PairMessages : RipioHandleMessage(s, message)
    \/ BitmexNext

SpecVenues == VenuesInit /\ [][VenuesNext]_vars

(***************************************************************************)
(* Definitions used by the bitmex properties.                              *)
(***************************************************************************)
\* the last step was handle_message
BitmexDispatched == bout.op = "handle_message"

\* the routing keys of the order-book tables handle_message dispatches
DispatchedKeys ==
    {BitmexMessageHash(table, marketId) :
        table \in Methods, marketId \in BitmexMarketIds}

\* the routing keys the args of the echoed request name
NamedKeys(message) ==
    IF message.request = None THEN {}
    ELSE LET args == Get(message.request)
         IN  IF args.kind = "list"
             THEN {args.items[k] : k \in 1..Len(args.items)}
             ELSE {args.first \o args.rest}

\* the exception class the taxonomy gives the error text
ExpectedException(error) ==
    IF error = RateLimitText THEN "RateLimitExceeded" ELSE "ExchangeError"

(***************************************************************************)
(* C12: handling a frame with an error and an echoed request whose args    *)
(* name key K rejects exactly the waiter pending under K, with             *)
(* RateLimitExceeded when the text contains 'Rate limit exceeded' and      *)
(* ExchangeError otherwise; no other waiter is rejected or resolved, no    *)
(* order book changes and the frame reaches no table handler.              *)
(***************************************************************************)
C12_ErrorRejectsNamedWaiter ==
    [][(/\ BitmexDispatched'
        /\ bitmexSeen' # bitmexSeen
        /\ Get(bout'.message).error # None
        /\ Get(bout'.message).request # None)
       => LET message == Get(bout'.message)
              named == NamedKeys(message) \cap bitmexFutures
          IN  /\ bitmexFutures' = bitmexFutures \ named
              /\ Keys(bout'.rejected) \cap bitmexFutures = named
              /\ \A k \in 1..Len(bout'.rejected) :
                    bout'.rejected[k].exception
                      = ExpectedException(Get(message.error))
              /\ bout'.resolved = <<>>
              /\ bitmexBooks' = bitmexBooks
              /\ ~bout'.dispatched]_vars

(***************************************************************************)
(* C13: every waiter watch_order_book registers is pending under the key   *)
(* '<table>:<marketId>' of a table that handle_message dispatches to       *)
(* handle_order_book, so a 'partial' frame of that table for the market    *)
(* resolves it.                                                            *)
(***************************************************************************)
C13_WatchedKeyIsDispatched == bitmexFutures \subseteq DispatchedKeys

(***************************************************************************)
(* Teardown of a ripio order-book subscription.  ripio.py has no           *)
(* unsubscribe or close path; the step below is the one the specification  *)
(* gives: the book is discarded, the snapshot tasks are cancelled and the  *)
(* pending waiter is rejected with a cancellation error.                   *)
(***************************************************************************)
\* teardown that leaves the waiter of the symbol pending
CloseSilently(s) ==
    /\ subscriptions[s] # <<>>
    /\ orderbooks' = [orderbooks EXCEPT ![s] = None]
    /\ subscriptions' = [subscriptions EXCEPT ![s] = <<>>]
    /\ delayed' = [delayed EXCEPT ![s] = 0]
    /\ fetching' = [fetching EXCEPT ![s] = 0]
    /\ out' = Quiet("close", Some(s))
    /\ UNCHANGED others
    /\ UNCHANGED <<futures, snap, arrived, fetchFailed>>

\* unsubscribe of the symbol, or close of its connection
Close(s) ==
    /\ subscriptions[s] # <<>>
    /\ orderbooks' = [orderbooks EXCEPT ![s] = None]
    /\ subscriptions' = [subscriptions EXCEPT ![s] = <<>>]
    /\ delayed' = [delayed EXCEPT ![s] = 0]
    /\ fetching' = [fetching EXCEPT ![s] = 0]
    /\ futures' = [futures EXCEPT ![s] = FALSE]
    /\ out' = [Quiet("close", Some(s)) EXCEPT
                 !.rejected = IF futures[s] THEN Some("CancelledError")
                              ELSE None]
    /\ UNCHANGED others
    /\ UNCHANGED <<snap, arrived, fetchFailed>>

TeardownNext ==
    \E s \in Watchlist :
        \/ WatchOrderBook(s)
        \/ StartSnapshotTask(s)
        \/ \E snapshot \in PairSnapshots : FetchOrderBookSnapshot(s, snapshot)
        \/ FetchOrderBookSnapshotFails(s)
        \/ \E message \in PairMessages : HandleMessage(s, message)
        \/ Close(s)

SpecTeardown == Init /\ [][TeardownNext]_vars

\* the last step was the teardown of s
Closed(s) == out.op = "close" /\ out.symbol = Some(s)

Best(side, n, highest) ==
    { p \in DOMAIN side :
        Cardinality({ q \in DOMAIN side : IF highest THEN q > p ELSE q < p })
          < n }

\* the side restricted to the prices
Only(side, prices) == [p \in prices |-> side[p]]

\* orderbook.limit(n): the best n levels of each side, every level when n
\* is None; the stored book is not changed
LimitView(orderbook, n) ==
    IF n = None
    THEN [bids |-> orderbook.bids, asks |-> orderbook.asks]
    ELSE [bids |-> Only(orderbook.bids, Best(orderbook.bids, Get(n), TRUE)),
          asks |-> Only(orderbook.asks, Best(orderbook.asks, Get(n), FALSE))]

\* return orderbook.limit(): the value of watch_order_book(symbol, limit)
\* once its waiter is resolved with the book
WatchOrderBookResult(orderbook, limit) == LimitView(orderbook, None)

\* the limit arguments of the callers
CallerLimits == {Some(1), Some(2)}

(***************************************************************************)
(* C15: whenever the order-book waiter of a symbol is resolved, the value  *)
(* watch_order_book(symbol, limit=n) returns has at most n levels on each  *)
(* side, namely the best n bids and the best n asks of the stored book,    *)
(* and the stored book is the one the waiter was resolved with.            *)
(***************************************************************************)
C15_ReturnedViewIsLimited ==
    [][\A s \in Symbols : \A limit \in CallerLimits :
         (out'.symbol = Some(s) /\ out'.resolved # None)
         => LET stored == Get(out'.resolved)
                view == WatchOrderBookResult(stored, limit)
            IN  /\ Cardinality(DOMAIN view.bids) <= Get(limit)
                /\ Cardinality(DOMAIN view.asks) <= Get(limit)
                /\ view = LimitView(stored, limit)
                /\ orderbooks'[s] = Some(stored)]_vars

(***************************************************************************)
(* ripio trades: watch_trades and handle_trade.                            *)
(***************************************************************************)
\* the decoded payload of a trade frame
TradeData ==
    { [created_at |-> 1601736, price |-> 10593, side |-> "BUY",
       pair |-> "BTC_USDC"],
      [created_at |-> 1601737, price |-> 10594, side |-> "SELL",
       pair |-> "BTC_USDC"],
      [created_at |-> 1601738, price |-> 10592, side |-> "BUY",
       pair |-> "BTC_USDC"] }

TradeMessages ==
    { [messageId |-> Some("CAAQAA=="), payload |-> Some(d),
       publishTime |-> Some(1000)] : d \in TradeData }
    \cup { [messageId |-> None, payload |-> None, publishTime |-> None] }

\* self.parse_trade(data, market): the unified trade, its symbol that of the
\* subscription's market and its timestamp in milliseconds
ParseTrade(data, symbol) ==
    [symbol |-> symbol, timestamp |-> data.created_at * 1000,
     price |-> data.price, side |-> IF data.side = "BUY" THEN "buy" ELSE "sell"]

\* tradesArray.append(trade) on an ArrayCache(limit): the oldest entry is
\* evicted once the cache holds limit entries
ArrayCacheAppend(cache, trade, limit) ==
    IF Len(cache) >= limit
    THEN Append(Tail(cache), trade)
    ELSE Append(cache, trade)

\* handle_trade appending to a new ArrayCache that it does not keep in
\* self.trades
HandleTradeUnstored(message, symbol, tradesArray) ==
    IF message.payload = None
    THEN [trades |-> tradesArray, resolved |-> None]
    ELSE LET trade == ParseTrade(Get(message.payload), symbol)
             cache == ArrayCacheAppend(<<>>, trade, TradesLimit)
         IN  [trades |-> Some(cache), resolved |-> Some(cache)]

\* handle_trade(client, message, subscription): self.trades[symbol]
\* afterwards and the value handed to client.resolve
HandleTrade(message, symbol, tradesArray) ==
    IF message.payload = None
    THEN [trades |-> tradesArray, resolved |-> None]
    ELSE LET trade == ParseTrade(Get(message.payload), symbol)
             cache == ArrayCacheAppend(
                          IF tradesArray = None THEN <<>> ELSE Get(tradesArray),
                          trade, TradesLimit)
         IN  [trades |-> Some(cache), resolved |-> Some(cache)]

\* watch_trades(symbol) up to its await: self.watch registers the
\* subscription and the waiter under the messageHash
WatchTrades(s) ==
    LET messageHash == MessageHash("trades", s)
    IN  /\ tradeClient' =
              [tradeClient EXCEPT
                 ![s] = [subscriptions |->
                             IF Subscribed(@.subscriptions, messageHash)
                             THEN @.subscriptions
                             ELSE Append(@.subscriptions, messageHash),
                         future |-> TRUE]]
        /\ out' = Quiet("watch_trades", Some(s))
        /\ UNCHANGED <<bookVars, venue, routing, trades, tradeLog, bitmexBooks,
                       bitmexFutures, bitmexSeen, bout, registry>>

\* handle_message(client, message) on the connection of the symbol's trades:
\* spawn the ack, then handle_trade, the method of the first subscription
HandleTradeMessage(s, message) ==
    /\ tradeClient[s].subscriptions # <<>>
    /\ Len(tradeLog[s]) < MaxTrades
    /\ LET r == HandleTrade(message, s, trades[s])
       IN  /\ trades' = [trades EXCEPT ![s] = r.trades]
           /\ tradeClient' =
                 IF r.resolved # None
                 THEN [tradeClient EXCEPT ![s].future = FALSE]
                 ELSE tradeClient
           /\ out' = [Quiet("handle_message", Some(s)) EXCEPT
                        !.message = Some(message),
                        !.resolved = r.resolved,
                        !.ack = message.messageId]
    /\ tradeLog' = IF message.payload = None THEN tradeLog
                   ELSE [tradeLog EXCEPT
                           ![s] = Append(@, ParseTrade(Get(message.payload), s))]
    /\ UNCHANGED <<bookVars, venue, routing, bitmexBooks, bitmexFutures, bitmexSeen,
                   bout, registry>>

TradesNext ==
    \E s \in Watchlist :
        \/ WatchTrades(s)
        \/ \E message \in TradeMessages : HandleTradeMessage(s, message)

SpecTrades == Init /\ [][TradesNext]_vars

\* the last n entries of a sequence
LastN(seq, n) == SubSeq(seq, Len(seq) - n + 1, Len(seq))

Min(a, b) == IF a < b THEN a ELSE b

(***************************************************************************)
(* C16: in every state the trades cache of a symbol holds exactly the last *)
(* min(k, L) of the k trades parsed for it, in arrival order, never more   *)
(* than L = tradesLimit; and every frame that appends a trade resolves the *)
(* symbol's waiter with that cache.                                        *)
(***************************************************************************)
C16_TradesCacheIsLastL ==
    /\ [](\A s \in Symbols :
            /\ trades[s] = None => tradeLog[s] = <<>>
            /\ trades[s] # None
                 => /\ Len(Get(trades[s])) <= TradesLimit
                    /\ Get(trades[s])
                         = LastN(tradeLog[s],
                                 Min(Len(tradeLog[s]), TradesLimit)))
    /\ [][\A s \in Symbols :
            tradeLog'[s] # tradeLog[s]
            => /\ out'.resolved = trades'[s]
               /\ ~tradeClient'[s].future]_vars

\* more trades than the cache holds have arrived and the oldest is gone
C16_Witness ==
    \E s \in Symbols :
        /\ Len(tradeLog[s]) > TradesLimit
        /\ trades[s] # None
        /\ Get(trades[s])[1] # tradeLog[s][1]
        /\ out.resolved = trades[s]

(***************************************************************************)
(* C17: every frame handle_message dispatches schedules the ack of its     *)
(* messageId, one ack, when it carries a messageId and none when it does   *)
(* not; the ack does not hold up the dispatch, whose outcome is that of    *)
(* the subscription's handler whether it buffers, applies, ignores or      *)
(* raises.                                                                 *)
(***************************************************************************)
C17_AckPerMessageId ==
    [][\A s \in Symbols :
         (Dispatched(s)' /\ arrived'[s] # arrived[s])
         => LET message == Get(out'.message)
                r == HandleOrderBook(message, orderbooks[s])
            IN  /\ out'.ack = message.messageId
                /\ orderbooks'[s] = r.book
                /\ out'.resolved = r.resolved
                /\ out'.raised = r.raised]_vars

\* a frame with a messageId whose handler raised has its ack scheduled
C17_Witness ==
    \E s \in Symbols :
        /\ Dispatched(s)
        /\ out.raised # None
        /\ out.ack # None
        /\ out.ack = Get(out.message).messageId

(***************************************************************************)
(* Definitions used by the properties of both venues.                      *)
(***************************************************************************)
\* no level of a ripio side has amount 0
Positive(bookside) == \A p \in DOMAIN bookside : bookside[p] # 0

\* no level of a bitmex side has size 0
PositiveSizes(side) == \A id \in DOMAIN side : side[id].size # 0

\* handle_deltas leaves every price the deltas list with amount 0 absent and
\* no level with amount 0
ZeroDeltasAbsent(bookside, deltas) ==
    LET after == HandleDeltas(bookside, deltas)
    IN  /\ Positive(after)
        /\ \A i \in 1..Len(deltas) :
              deltas[i].amount = 0 => deltas[i].price \notin DOMAIN after

\* the symbol whose book row k of the frame addresses: the filter's market
\* in a 'partial' frame, the row's own market otherwise
AddressedMarket(message, k) ==
    IF message.action = Some("partial") THEN message.filter
    ELSE Some(message.data[k].symbol)

RipioSubscribe(name, s) ==
    /\ venue = "ripio"
    /\ registry' = registry \cup
          { [channel |-> name, market |-> s, key |-> MessageHash(name, s)] }
    /\ UNCHANGED <<bookVars, out, venue, routing, trades, tradeClient, tradeLog,
                   bitmexBooks, bitmexFutures, bitmexSeen, bout>>

\* a bitmex watch_order_book call up to its messageHash
BitmexSubscribe(symbol, limit) ==
    /\ venue = "bitmex"
    /\ TableOfLimit(limit) # None
    /\ LET name == Get(TableOfLimit(limit))
       IN  registry' = registry \cup
              { [channel |-> name, market |-> symbol,
                 key |-> BitmexMessageHash(name, BitmexMarketId(symbol))] }
    /\ UNCHANGED <<bookVars, out, venue, routing, trades, tradeClient, tradeLog,
                   bitmexBooks, bitmexFutures, bitmexSeen, bout>>

KeysNext ==
    \/ \E name \in RipioNames : \E s \in Symbols : RipioSubscribe(name, s)
    \/ \E symbol \in BitmexSymbols : \E limit \in Limits :
          BitmexSubscribe(symbol, limit)

SpecKeys == VenuesInit /\ [][KeysNext]_vars

(***************************************************************************)
(* C19: among the routing keys one exchange instance has derived, two      *)
(* calls for the same channel and market have the same key and two calls   *)
(* that differ in channel or market have different keys; the ripio key is  *)
(* '<name>_<lowercased market id>', the bitmex key '<table>:<market id>'.  *)
(***************************************************************************)
C19_KeysCollisionFree ==
    \A a \in registry : \A b \in registry :
        /\ (a.channel = b.channel /\ a.market = b.market) <=> a.key = b.key
        /\ a.key = IF venue = "ripio"
                   THEN a.channel \o "_" \o Lower(MarketId(a.market))
                   ELSE a.channel \o ":" \o BitmexMarketId(a.market)

\* every channel of every ripio market has been subscribed
C19_Witness ==
    /\ venue = "ripio"
    /\ \A name \in RipioNames : \A s \in Symbols :
          \E a \in registry : a.channel = name /\ a.market = s

\* the market ids a bitmex frame addresses: the filter's market of a
\* 'partial' frame, the markets of the rows of any other frame
Addressed(message) ==
    IF message.action = Some("partial")
    THEN IF message.filter = None THEN {} ELSE {Get(message.filter)}
    ELSE {message.data[k].symbol : k \in 1..Len(message.data)}

\* the routing keys of a market: one per table name
KeysOfMarket(marketId) ==
    {BitmexMessageHash(table, marketId) :
        table \in Methods \cup {Get(TableOfLimit(limit)) :
                                  limit \in {l \in Limits : TableOfLimit(l) # None}}}

\* the frame with only the rows of the market
OwnRows(message, marketId) ==
    [message EXCEPT
       !.data = SelectSeq(message.data, LAMBDA row : row.symbol = marketId)]

(***************************************************************************)
(* C20: a frame, a snapshot result or a snapshot failure of ripio symbol S *)
(* leaves the book (sides, nonce, buffer) and the waiter of every other    *)
(* symbol as they were; a frame for a ripio symbol that is SYNCED is       *)
(* handled directly, with the outcome its own book alone determines; a     *)
(* bitmex frame leaves the book of every market it does not address        *)
(* unchanged and settles no waiter of such a market; and an incremental    *)
(* bitmex frame does to the initialised book of each market it addresses   *)
(* what the market's own rows alone would do, and resolves that market's   *)
(* waiter, whatever the state of the other markets.                        *)
(***************************************************************************)
C20_SymbolsIndependent ==
    /\ [][\A s \in Symbols : \A t \in Symbols \ {s} :
            (/\ out'.symbol = Some(s)
             /\ out'.op \in {"handle_message", "fetch_order_book_snapshot"}
             /\ out' # out)
            => /\ orderbooks'[t] = orderbooks[t]
               /\ futures'[t] = futures[t]]_vars
    /\ [][\A t \in Symbols :
            (HasNonce(t) /\ Dispatched(t)' /\ arrived'[t] # arrived[t])
            => LET r == HandleOrderBookMessage(Get(out'.message),
                                               Get(orderbooks[t]))
               IN  /\ orderbooks'[t] = Some(r.book)
                   /\ out'.raised = r.raised
                   /\ (r.raised = None) => out'.resolved = Some(r.book)]_vars
    /\ [][(BitmexDispatched' /\ bitmexSeen' # bitmexSeen)
          => \A marketId \in BitmexMarketIds \ Addressed(Get(bout'.message)) :
                /\ bitmexBooks'[BitmexSymbol(marketId)]
                     = bitmexBooks[BitmexSymbol(marketId)]
                /\ KeysOfMarket(marketId) \cap bitmexFutures
                     \subseteq bitmexFutures'
                /\ KeysOfMarket(marketId)
                     \cap (Keys(bout'.resolved) \cup Keys(bout'.rejected)) = {}]_vars
    /\ [][(/\ BitmexDispatched'
           /\ bout'.dispatched
           /\ Get(bout'.message).action # Some("partial"))
          => LET message == Get(bout'.message)
             IN  \A marketId \in BitmexMarketIds \cap Addressed(message) :
                    bitmexBooks[BitmexSymbol(marketId)] # None
                    => LET r == BitmexHandleOrderBook(OwnRows(message, marketId),
                                                      bitmexBooks)
                       IN  /\ bitmexBooks'[BitmexSymbol(marketId)]
                                = r.books[BitmexSymbol(marketId)]
                           /\ BitmexMessageHash(Get(message.table), marketId)
                                \in Keys(bout'.resolved)]_vars

(***************************************************************************)
(* Definitions used by the remaining ripio properties.                     *)
(***************************************************************************)
\* frames whose payload lists a level without a price
MalformedMessages ==
    { [messageId |-> Some("CAAQAA=="),
       payload |-> Some([buy |-> <<[price |-> None, amount |-> 1]>>,
                         sell |-> <<Level(101, 0)>>,
                         updated_id |-> Some(n)]),
       publishTime |-> Some(1000 + n)] : n \in 1..MaxNonce }

(***************************************************************************)
(* C21: whenever handle_order_book_message raises on a book that has a     *)
(* nonce, the book's bids, asks, nonce and timestamp are what they were    *)
(* before the frame: for every frame dispatched directly, and for every    *)
(* frame, well formed or malformed, handed to it on a reachable book.      *)
(***************************************************************************)
C21_FailedDeltaChangesNothing ==
    /\ [](\A s \in Symbols :
            HasNonce(s)
            => /\ \A message \in Messages :
                     LET r == HandleOrderBookMessage(message, Get(orderbooks[s]))
                     IN  r.raised # None
                         => View(r.book) = View(Get(orderbooks[s]))
               /\ \A message \in MalformedMessages :
                     LET r == HandleOrderBookMessage(message, Get(orderbooks[s]))
                     IN  r.raised # None
                         => View(r.book) = View(Get(orderbooks[s])))
    /\ [][\A s \in Symbols :
            (/\ HasNonce(s)
             /\ Dispatched(s)'
             /\ arrived'[s] # arrived[s]
             /\ out'.raised # None)
            => View(Get(orderbooks'[s])) = View(Get(orderbooks[s]))]_vars

\* a delta above the nonce that lists sell levels has just failed on a
\* synced book
C21_Witness ==
    \E s \in Symbols :
        /\ HasNonce(s)
        /\ Dispatched(s)
        /\ out.raised # None
        /\ IsDelta(Get(out.message))
        /\ UpdatedId(Get(out.message)) > Get(Get(orderbooks[s]).nonce)
        /\ Get(Get(out.message).payload).sell # <<>>

(***************************************************************************)
(* Definitions used by the remaining bitmex properties.                    *)
(***************************************************************************)
\* the rows of the data that are on the side and have a size above 0
Live(data, buy) ==
    { k \in 1..Len(data) :
        /\ (data[k].side = "Buy") = buy
        /\ data[k].size # None
        /\ Get(data[k].size) > 0 }

\* the side those rows make up: each under its id, with its price and size
SideOfRows(data, buy) ==
    [id \in {SafeStringId(data[k]) : k \in Live(data, buy)} |->
        LET k == CHOOSE j \in Live(data, buy) : SafeStringId(data[j]) = id
        IN  [price |-> data[k].price, size |-> Get(data[k].size)]]

\* the last step handed an order-book frame to handle_order_book
TableHandled == BitmexDispatched /\ bout.dispatched

(***************************************************************************)
(* C22: after a 'partial' frame for a known market the market's book is    *)
(* exactly the frame's rows with size above 0, Buy rows among the bids and *)
(* the others among the asks, each under its id, whatever the book held    *)
(* before; the waiter '<table>:<marketId>' is resolved once with that book *)
(* and no other book or waiter changes.  A 'partial' whose filter names no *)
(* known market changes no book and resolves no waiter.                    *)
(***************************************************************************)
C22_PartialReplacesBook ==
    [][(TableHandled' /\ Get(bout'.message).action = Some("partial"))
       => LET message == Get(bout'.message)
          IN  IF message.filter # None /\ Get(message.filter) \in BitmexMarketIds
              THEN LET marketId == Get(message.filter)
                       symbol == BitmexSymbol(marketId)
                       key == BitmexMessageHash(Get(message.table), marketId)
                   IN  /\ bitmexBooks'[symbol]
                            = Some([bids |-> SideOfRows(message.data, TRUE),
                                    asks |-> SideOfRows(message.data, FALSE)])
                       /\ \A other \in BitmexSymbols \ {symbol} :
                             bitmexBooks'[other] = bitmexBooks[other]
                       /\ bout'.resolved
                            = << [key |-> key, value |-> bitmexBooks'[symbol]] >>
                       /\ bitmexFutures' = bitmexFutures \ {key}
                       /\ bout'.raised = None
              ELSE /\ bitmexBooks' = bitmexBooks
                   /\ bitmexFutures' = bitmexFutures
                   /\ bout'.resolved = <<>>
                   /\ bout'.raised = None]_vars

\* the full-book partial of XBTUSD has just been handled after an earlier
\* frame: its row of size 0 left no level and its waiter was pending
C22_Witness ==
    /\ TableHandled
    /\ bitmexSeen > 1
    /\ Get(bout.message).action = Some("partial")
    /\ Get(bout.message).filter = Some("XBTUSD")
    /\ Len(Get(bout.message).data) = 3
    /\ Len(bout.resolved) = 1
    /\ bitmexBooks["BTC/USD"] = bout.resolved[1].value
    /\ DOMAIN Get(bitmexBooks["BTC/USD"]).asks = {"2"}
    /\ DOMAIN Get(bitmexBooks["BTC/USD"]).bids = {"1"}

\* the rows of the data that name the id on the side of the market
Naming(data, marketId, buy, id) ==
    { k \in 1..Len(data) :
        /\ data[k].symbol = marketId
        /\ (data[k].side = "Buy") = buy
        /\ SafeStringId(data[k]) = id }

\* the bids or the asks of the book
Half(book, buy) == IF buy THEN book.bids ELSE book.asks

Incremental == {Some("insert"), Some("update"), Some("delete")}

(***************************************************************************)
(* C23: an incremental frame handled without an exception, on the book of  *)
(* an initialized market.  A level no row of the frame names is unchanged. *)
(* A row of an 'insert' frame with a size above 0 leaves a level under its *)
(* id with the row's price and size; a row of an 'update' frame that has   *)
(* no price and a size above 0, naming an existing level, leaves the level *)
(* with the row's size and the price it had; a row of a 'delete' frame,    *)
(* which has no size, leaves no level under its id.                        *)
(***************************************************************************)
C23_IncrementalRows ==
    [][(/\ TableHandled'
        /\ Get(bout'.message).action \in Incremental
        /\ bout'.raised = None)
       => LET message == Get(bout'.message)
              data == message.data
          IN  \A marketId \in BitmexMarketIds, buy \in BOOLEAN, id \in 1..5 :
                LET symbol == BitmexSymbol(marketId)
                    rows == Naming(data, marketId, buy, Numerals[id])
                    key == Numerals[id]
                IN  bitmexBooks[symbol] # None
                    => LET before == Half(Get(bitmexBooks[symbol]), buy)
                           after == Half(Get(bitmexBooks'[symbol]), buy)
                       IN  /\ rows = {}
                               => /\ (key \in DOMAIN after) = (key \in DOMAIN before)
                                  /\ key \in DOMAIN before => after[key] = before[key]
                           /\ \A k \in rows :
                                /\ (/\ message.action = Some("insert")
                                    /\ data[k].size # None
                                    /\ Get(data[k].size) > 0)
                                   => /\ key \in DOMAIN after
                                      /\ after[key] = [price |-> data[k].price,
                                                       size |-> Get(data[k].size)]
                                /\ (/\ message.action = Some("update")
                                    /\ data[k].price = None
                                    /\ data[k].size # None
                                    /\ Get(data[k].size) > 0
                                    /\ key \in DOMAIN before)
                                   => /\ key \in DOMAIN after
                                      /\ after[key] = [price |-> before[key].price,
                                                       size |-> Get(data[k].size)]
                                /\ (/\ message.action = Some("delete")
                                    /\ data[k].size = None)
                                   => key \notin DOMAIN after]_vars

\* an update without a price has just changed the size of the bid 1 of
\* XBTUSD, which keeps the price 100 of the partial, next to an untouched ask
C23_Witness ==
    /\ TableHandled
    /\ Get(bout.message).action = Some("update")
    /\ bout.raised = None
    /\ Len(Get(bout.message).data) = 1
    /\ Get(bout.message).data[1].price = None
    /\ bitmexBooks["BTC/USD"] # None
    /\ "1" \in DOMAIN Get(bitmexBooks["BTC/USD"]).bids
    /\ Get(bitmexBooks["BTC/USD"]).bids["1"] = [price |-> Some(100), size |-> 7]
    /\ "2" \in DOMAIN Get(bitmexBooks["BTC/USD"]).asks

\* the known markets that a row of the data names and that have no book
Uninitialized(data, books) ==
    { marketId \in BitmexMarketIds :
        /\ \E k \in 1..Len(data) : data[k].symbol = marketId
        /\ books[BitmexSymbol(marketId)] = None }

(***************************************************************************)
(* C24: an insert, update or delete frame with a row for a known market    *)
(* that has had no 'partial' is handled without an exception leaving       *)
(* handle_message, and the market still has no book afterwards.            *)
(***************************************************************************)
C24_UninitializedIsSkipped ==
    [][(/\ TableHandled'
        /\ Get(bout'.message).action \in Incremental
        /\ Uninitialized(Get(bout'.message).data, bitmexBooks) # {})
       => /\ bout'.raised = None
          /\ \A marketId \in Uninitialized(Get(bout'.message).data, bitmexBooks) :
                bitmexBooks'[BitmexSymbol(marketId)] = None]_vars

\* the known markets that a row of the data names
RowMarkets(data) ==
    { marketId \in BitmexMarketIds :
        \E k \in 1..Len(data) : data[k].symbol = marketId }

(***************************************************************************)
(* C25: after an incremental frame is handled, client.resolve has been     *)
(* called exactly once for '<table>:<marketId>' of every known market that *)
(* a row of the frame names, with the book of that market as it is after   *)
(* all rows of the frame, and for no other key.                            *)
(***************************************************************************)
C25_OneResolutionPerMarket ==
    [][(TableHandled' /\ Get(bout'.message).action \in Incremental)
       => LET message == Get(bout'.message)
              table == Get(message.table)
              calls == bout'.resolved
          IN  /\ Len(calls) = Cardinality(RowMarkets(message.data))
              /\ {calls[i].key : i \in 1..Len(calls)}
                   = {BitmexMessageHash(table, marketId) :
                        marketId \in RowMarkets(message.data)}
              /\ \A i \in 1..Len(calls), marketId \in RowMarkets(message.data) :
                    calls[i].key = BitmexMessageHash(table, marketId)
                    => calls[i].value = bitmexBooks'[BitmexSymbol(marketId)]]_vars

(***************************************************************************)
(* The ripio clients by url: every watch function builds its url from its  *)
(* messageHash and registers its subscription with the client of that url; *)
(* handle_message hands a frame to the method of the first subscription of *)
(* the client the frame arrived on.                                        *)
(***************************************************************************)
\* the 'method' each watch function puts in its subscription
HandlerOf(name) ==
    CASE name = "trades" -> "handle_trade"
      [] name = "rate" -> "handle_ticker"
      [] name = "orderbook" -> "handle_order_book"

\* the subscription a watch function builds
Subscription(name, symbol) ==
    [name |-> name, symbol |-> symbol,
     messageHash |-> MessageHash(name, symbol), method |-> HandlerOf(name)]

\* messageHash in client.subscriptions
Registered(subs, messageHash) ==
    \E i \in 1..Len(subs) : subs[i].messageHash = messageHash

\* the symbol of a market id
SymbolOfPair(pair) == CHOOSE s \in Symbols : MarketId(s) = pair

\* the frames the exchange sends on the topic of the channel and market
TopicFrames(name, s) ==
    { [messageId |-> None, payload |-> None, publishTime |-> None] }
    \cup
    CASE name = "orderbook" ->
           { m \in PairMessages :
               m.payload # None /\ Get(m.payload).updated_id = Some(1) }
      [] name = "trades" ->
           { [messageId |-> Some("CAAQAA=="),
              payload |-> Some([d EXCEPT !.pair = MarketId(s)]),
              publishTime |-> Some(1000)] :
                d \in {x \in TradeData : x.side = "SELL"} }
      [] name = "rate" ->
           { [messageId |-> Some("CAAQAA=="),
              payload |-> Some([pair |-> MarketId(s), last_price |-> 68558]),
              publishTime |-> Some(1000)] }

\* self.parse_ticker(data): the unified ticker, its symbol that of the pair
ParseTicker(data) ==
    [symbol |-> SymbolOfPair(data.pair), last |-> data.last_price]

\* handle_ticker(client, message, subscription): self.tickers afterwards,
\* whether client.resolve was called, and the value returned
HandleTicker(message, subscription, all) ==
    IF message.payload = None
    THEN [tickers |-> all, resolved |-> FALSE, returned |-> Some(message)]
    ELSE LET parsed == ParseTicker(Get(message.payload))
             ticker == [symbol |-> parsed.symbol, last |-> parsed.last,
                        timestamp |-> Get(message.publishTime)]
         IN  [tickers |-> [all EXCEPT ![ticker.symbol] = Some(ticker)],
              resolved |-> TRUE, returned |-> Some(message)]

\* keys = list(client.subscriptions.keys()); firstKey = keys[0]; the
\* subscription under it, None where the client has no subscription
FirstSubscription(subs) == IF subs = <<>> THEN None ELSE Some(subs[1])

\* watch_trades / watch_ticker / watch_order_book(symbol) up to the await of
\* the waiter, on the client of the url
ClientWatch(name, s) ==
    /\ venue = "ripio"
    /\ LET messageHash == MessageHash(name, s)
           url == ConnectionUrl(name, s)
           first == ~Registered(clients[url].subscriptions, messageHash)
           book == first /\ name = "orderbook"
       IN  /\ clients' =
                [clients EXCEPT
                   ![url] = [subscriptions |->
                                IF first
                                THEN Append(@.subscriptions, Subscription(name, s))
                                ELSE @.subscriptions,
                             futures |-> @.futures \cup {messageHash}]]
           /\ orderbooks' = IF book
                            THEN [orderbooks EXCEPT ![s] = Some(OrderBook)]
                            ELSE orderbooks
           /\ delayed' = IF book THEN [delayed EXCEPT ![s] = @ + 1] ELSE delayed
           /\ rout' = [Unrouted("watch") EXCEPT
                         !.name = Some(name), !.market = Some(s),
                         !.seen = rout.seen]
    /\ UNCHANGED <<subscriptions, futures, fetching, out, snap, arrived,
                   fetchFailed, venue, trades, tradeClient, tradeLog,
                   bitmexBooks, bitmexFutures, bitmexSeen, bout, registry,
                   tickers>>

\* handle_message(client, message) for a frame of the topic of the channel
\* and market, on the client of the topic's url
ClientHandleMessage(name, s, message) ==
    /\ venue = "ripio"
    /\ rout.seen < MaxRouted
    /\ LET url == ConnectionUrl(name, s)
           subscription == FirstSubscription(clients[url].subscriptions)
           method == IF subscription = None THEN None
                     ELSE Some(Get(subscription).method)
           step == [Unrouted("handle_message") EXCEPT
                      !.name = Some(name), !.market = Some(s),
                      !.message = Some(message), !.ack = message.messageId,
                      !.method = method, !.subscription = subscription,
                      !.seen = rout.seen + 1]
       IN  IF method = None
           THEN /\ rout' = [step EXCEPT !.returned = Some(message)]
                /\ UNCHANGED <<clients, orderbooks, trades, tickers>>
           ELSE LET symbol == Get(subscription).symbol
                    messageHash == Get(subscription).messageHash
                    resolve == [clients EXCEPT ![url].futures = @ \ {messageHash}]
                IN  CASE Get(method) = "handle_order_book" ->
                           LET r == HandleOrderBook(message, orderbooks[symbol])
                           IN  /\ orderbooks' = [orderbooks EXCEPT ![symbol] = r.book]
                               /\ clients' = IF r.resolved # None THEN resolve
                                             ELSE clients
                               /\ rout' = [step EXCEPT
                                             !.resolved = r.resolved # None,
                                             !.returned = Some(message)]
                               /\ UNCHANGED <<trades, tickers>>
                      [] Get(method) = "handle_trade" ->
                           LET r == HandleTrade(message, symbol, trades[symbol])
                           IN  /\ trades' = [trades EXCEPT ![symbol] = r.trades]
                               /\ clients' = IF r.resolved # None THEN resolve
                                             ELSE clients
                               /\ rout' = [step EXCEPT
                                             !.resolved = r.resolved # None,
                                             !.returned =
                                                IF message.payload = None
                                                THEN Some(message) ELSE None]
                               /\ UNCHANGED <<orderbooks, tickers>>
                      [] Get(method) = "handle_ticker" ->
                           LET r == HandleTicker(message, Get(subscription), tickers)
                           IN  /\ tickers' = r.tickers
                               /\ clients' = IF r.resolved THEN resolve ELSE clients
                               /\ rout' = [step EXCEPT
                                             !.resolved = r.resolved,
                                             !.returned = r.returned]
                               /\ UNCHANGED <<orderbooks, trades>>
    /\ UNCHANGED <<subscriptions, futures, delayed, fetching, out, snap,
                   arrived, fetchFailed, venue, tradeClient, tradeLog,
                   bitmexBooks, bitmexFutures, bitmexSeen, bout, registry>>

RoutingNext ==
    \E name \in RipioNames : \E s \in Symbols :
        \/ ClientWatch(name, s)
        \/ \E message \in TopicFrames(name, s) : ClientHandleMessage(name, s, message)

SpecRouting == Init /\ [][RoutingNext]_vars

\* the last step handled a frame on a ripio client
Routed == rout.op = "handle_message"

(***************************************************************************)
(* C26: every ripio client holds at most one subscription; a frame that    *)
(* arrives on a client with a subscription is handed to the handler of the *)
(* frame's own channel, with the subscription of the frame's own channel   *)
(* and symbol; a frame that arrives on a client with no subscription is    *)
(* returned as it came and no client, book, buffer, trade cache, ticker or *)
(* waiter changes.                                                         *)
(***************************************************************************)
C26_FrameReachesItsHandler ==
    /\ [](\A url \in Urls : Len(clients[url].subscriptions) <= 1)
    /\ [](Routed
          => LET name == Get(rout.name)
                 s == Get(rout.market)
                 subs == clients[ConnectionUrl(name, s)].subscriptions
             IN  subs # <<>>
                 => /\ rout.method = Some(HandlerOf(name))
                    /\ rout.subscription = Some(Subscription(name, s))
                    /\ subs = <<Subscription(name, s)>>)
    /\ [][(Routed' /\ rout'.method = None)
          => /\ rout'.returned = rout'.message
             /\ clients[ConnectionUrl(Get(rout'.name), Get(rout'.market))]
                    .subscriptions = <<>>
             /\ UNCHANGED <<clients, orderbooks, trades, tickers>>]_vars

\* a trade frame of ETH/USDC has reached handle_trade while the trades of
\* BTC/USDC and the order book of ETH/USDC are watched as well: only the
\* trade cache of ETH/USDC has an entry
C26_Witness ==
    /\ Routed
    /\ rout.name = Some("trades")
    /\ rout.market = Some("ETH/USDC")
    /\ rout.method = Some("handle_trade")
    /\ rout.resolved
    /\ trades["ETH/USDC"] # None
    /\ trades["BTC/USDC"] = None
    /\ clients[ConnectionUrl("trades", "BTC/USDC")].subscriptions # <<>>
    /\ clients[ConnectionUrl("orderbook", "ETH/USDC")].subscriptions # <<>>

\* the frame names none of the dispatched tables and, where it carries an
\* error, echoes no request
Unrecognized(message) ==
    /\ message.table = None \/ Get(message.table) \notin Methods
    /\ message.error = None \/ message.request = None

(***************************************************************************)
(* C27: a frame that names none of the dispatched order-book tables (the   *)
(* welcome frame, a subscription acknowledgment, a frame of another table, *)
(* an error frame that echoes no request) is returned by handle_message as *)
(* it came: no exception escapes, no book changes, no waiter is resolved   *)
(* or rejected, and the frames that follow are handled.                    *)
(***************************************************************************)
C27_UnrecognizedFrameIsReturned ==
    /\ [][(BitmexDispatched' /\ Unrecognized(Get(bout'.message)))
          => /\ bout'.returned = bout'.message
             /\ ~bout'.dispatched
             /\ bout'.raised = None
             /\ bout'.resolved = <<>>
             /\ bout'.rejected = <<>>
             /\ bitmexBooks' = bitmexBooks
             /\ bitmexFutures' = bitmexFutures]_vars
    /\ []((BitmexDispatched /\ Unrecognized(Get(bout.message))
           /\ bitmexSeen < MaxBitmexFrames)
          => \A message \in BitmexFrames : ENABLED BitmexHandleMessage(message))

\* an error frame without a request has been returned while a book exists
\* and a waiter is pending
C27_Witness ==
    /\ BitmexDispatched
    /\ Get(bout.message).error # None
    /\ Get(bout.message).request = None
    /\ bout.returned = bout.message
    /\ bitmexBooks["BTC/USD"] # None
    /\ bitmexFutures # {}

====
